---- MODULE Spec2Model ----
(***************************************************************************)
(* The trailer-booking server: a REST layer over one SQLite table.        *)
(*                                                                         *)
(* The repository holds two server programs: src/server.js (admin routes, *)
(* cancel/complete, e-mail notification) and src/unnamed/part_000 (the    *)
(* earlier server: availability, booking and the admin list only).  The   *)
(* variable `program` says which of the two is running.                   *)
(*                                                                         *)
(* Every request is one entry of `reqs`, appended when it arrives and     *)
(* kept after its response is sent.  A handler is cut into steps at the   *)
(* points where Node gives control back to the event loop: a statement    *)
(* handed to SQLite, an awaited fetch.  SQLite runs one statement at a    *)
(* time; the order among queued statements is left open.  SQLite itself   *)
(* is taken to work: the only statement errors are constraint failures,   *)
(* so the `DB error` (500) branches of the callbacks are never taken.     *)
(*                                                                         *)
(* Values: NULL stands for a field missing from the request (JavaScript   *)
(* undefined, bound as SQL NULL), Empty for the empty string, and the     *)
(* dates 1..MaxDate for distinct YYYY-MM-DD strings in ascending order.   *)
(* The free-text columns name, phone, address and notes are stored as     *)
(* given and read only to format e-mails; the model keeps `email`, the    *)
(* one customer field that decides control flow.                          *)
(***************************************************************************)
EXTENDS Integers, Sequences, FiniteSets, TLC

VARIABLES program, env, bookings, reqs

vars == <<program, env, bookings, reqs>>

(* ------------------------------ bounds -------------------------------- *)
MaxReq == 2
MaxDate == 1
MaxSlot == 2
MaxId == 2

(* ------------------------------ values -------------------------------- *)
NULL == 0 - 1
Empty == 0

Falsy(v) == v = NULL \/ v = Empty

Dates == {NULL, Empty} \cup (1..MaxDate)
SlotInputs == {NULL, Empty} \cup (1..MaxSlot)
IdInputs == {NULL} \cup (1..MaxId)
Emails == {"", "cust@mail"}

(* server.js: const slots = { 1: ..., 2: ..., 3: ... } *)
slots == [s \in 1..3 |->
            CASE s = 1 -> "9:00 AM - 12:00 PM"
              [] s = 2 -> "12:00 PM - 3:00 PM"
              [] s = 3 -> "3:00 PM - 6:00 PM"]

(* Object.keys(slots): integer-like keys come in ascending numeric order. *)
slotKeys == <<1, 2, 3>>

(* ------------------------------ admin auth ---------------------------- *)
ADMIN_USER == "allkeys"
ADMIN_PASS == "seadog"
ADMIN_USER_0 == "admin"
ADMIN_PASS_0 == "change-me"

NoCreds == <<>>
Creds == {NoCreds, <<ADMIN_USER, ADMIN_PASS>>, <<ADMIN_USER_0, ADMIN_PASS_0>>}

(* basicAuth({ users: { [ADMIN_USER]: ADMIN_PASS }, challenge: true }) *)
adminAuth(creds) ==
    IF program = "server.js"
    THEN creds = <<ADMIN_USER, ADMIN_PASS>>
    ELSE creds = <<ADMIN_USER_0, ADMIN_PASS_0>>

(* ------------------------------ responses ----------------------------- *)
NoRes == [status |-> 0, error |-> "", id |-> NULL, data |-> <<>>,
          page |-> "", location |-> "", challenge |-> FALSE]

Json(status) == [NoRes EXCEPT !.status = status]
JsonError(status, msg) == [NoRes EXCEPT !.status = status, !.error = msg]
Unauthorized == [NoRes EXCEPT !.status = 401, !.challenge = TRUE]

(* ------------------------------ the table ----------------------------- *)
(* CREATE TABLE bookings: id AUTOINCREMENT, date NOT NULL, slot NOT NULL, *)
(* status DEFAULT 'booked', UNIQUE(date, slot).  Rows are never deleted,  *)
(* so the table is the sequence of its rows in id order.                  *)
NoRow == [id |-> NULL, date |-> NULL, slot |-> NULL, email |-> "", status |-> ""]

(* The schema without UNIQUE(date, slot). *)
InsertErrNoUnique(table, date, slot) ==
    IF date = NULL \/ slot = NULL THEN "SQLITE_CONSTRAINT: NOT NULL" ELSE ""

InsertErr(table, date, slot) ==
    IF date = NULL \/ slot = NULL
    THEN "SQLITE_CONSTRAINT: NOT NULL"
    ELSE IF \E i \in 1..Len(table) : table[i].date = date /\ table[i].slot = slot
         THEN "SQLITE_CONSTRAINT: UNIQUE"
         ELSE ""

Insert(table, date, slot, email) ==
    Append(table, [id |-> Len(table) + 1, date |-> date, slot |-> slot,
                   email |-> email, status |-> "booked"])

(* SELECT * FROM bookings WHERE id = ? *)
SelectById(table, id) ==
    IF id \in 1..Len(table) THEN table[id] ELSE NoRow

(* A cancel that toggles: a canceled booking goes back to 'booked'. *)
UpdateCanceledToggle(table, id) ==
    [i \in 1..Len(table) |->
        IF table[i].id = id
        THEN [table[i] EXCEPT !.status = IF @ = "canceled" THEN "booked" ELSE "canceled"]
        ELSE table[i]]

(* UPDATE bookings SET status = 'canceled' WHERE id = ? *)
UpdateCanceled(table, id) ==
    [i \in 1..Len(table) |->
        IF table[i].id = id THEN [table[i] EXCEPT !.status = "canceled"] ELSE table[i]]

(* The UPDATE without its WHERE clause. *)
UpdateCompletedAll(table, id) ==
    [i \in 1..Len(table) |-> [table[i] EXCEPT !.status = "completed"]]

(* UPDATE bookings SET status = 'completed' WHERE id = ? *)
UpdateCompleted(table, id) ==
    [i \in 1..Len(table) |->
        IF table[i].id = id THEN [table[i] EXCEPT !.status = "completed"] ELSE table[i]]

(* The SELECT without its status filter: WHERE date = ? *)
BookedSlotsAnyStatus(table, date) ==
    {table[i].slot : i \in {j \in 1..Len(table) : table[j].date = date}}

(* SELECT slot FROM bookings WHERE date = ? AND status = 'booked' *)
BookedSlots(table, date) ==
    {table[i].slot : i \in {j \in 1..Len(table) :
                               table[j].date = date /\ table[j].status = "booked"}}

(* Object.keys(slots).map(s => ({slot, label, available: !booked.includes(s)})) *)
AvailabilityOf(table, date) ==
    [k \in 1..Len(slotKeys) |->
        [slot |-> slotKeys[k], label |-> slots[slotKeys[k]],
         available |-> slotKeys[k] \notin BookedSlots(table, date)]]

(* ------------------------------ e-mail -------------------------------- *)
(* sendEmail: if (!RESEND_API_KEY || !FROM_EMAIL || !to) return; else the  *)
(* fetch is awaited.  TRUE when the call reaches the fetch.               *)
sendEmail(to) == env.RESEND_API_KEY # "" /\ env.FROM_EMAIL # "" /\ to # ""

FetchOutcomes == {"ok", "not ok", "error"}

(* Where a handler stands after the owner e-mail: the customer e-mail is  *)
(* sent if (email), and awaited when sendEmail reaches its fetch.         *)
AfterOwner(email) ==
    IF email # "" /\ sendEmail(email) THEN "custFetch" ELSE "respond"

(* Where a handler stands when its e-mail section starts.                 *)
NotifyFrom(email) ==
    IF env.OWNER_NOTIFY_EMAIL # "" /\ sendEmail(env.OWNER_NOTIFY_EMAIL)
    THEN "ownerFetch"
    ELSE AfterOwner(email)

(* ------------------------------ requests ------------------------------ *)
(* A request as its handler sees it: the fields are those the handler has *)
(* read from req.query / req.body (a request turned away by adminAuth     *)
(* never has its parameters read).  pc: "db" a statement is queued, "cb"  *)
(* the statement has run and its callback is pending, "ownerFetch" and    *)
(* "custFetch" an awaited fetch, "done" the response is sent.             *)
NewReq(kind) ==
    [kind |-> kind, date |-> NULL, slot |-> NULL, email |-> "", id |-> NULL,
     creds |-> NoCreds, path |-> "", pc |-> "db", err |-> "", lastID |-> NULL,
     row |-> NoRow, wrote |-> FALSE, mail |-> <<>>, res |-> NoRes]

Done(req, res) == [req EXCEPT !.pc = "done", !.res = res]

Rs == 1..Len(reqs)

Arrive(req) == /\ Len(reqs) < MaxReq
               /\ reqs' = Append(reqs, req)

(* The response a handler sends once its e-mails are behind it:           *)
(* res.json({ success: true, id: bookingId }) / res.json({ success: true })*)
Success(req) ==
    IF req.kind = "book"
    THEN [Json(200) EXCEPT !.id = req.lastID]
    ELSE Json(200)

(* The customer address a handler mails to: the request's for /book, the  *)
(* selected row's for cancel and complete.                                *)
CustomerOf(req) == IF req.kind = "book" THEN req.email ELSE req.row.email

Proceed(req, stage) ==
    IF stage = "respond" THEN Done(req, Success(req)) ELSE [req EXCEPT !.pc = stage]

(* ------------------------------ POST /book ---------------------------- *)
PostBook(date, slot, email) ==
    /\ Arrive([NewReq("book") EXCEPT !.date = date, !.slot = slot, !.email = email])
    /\ UNCHANGED <<program, env, bookings>>

(* SQLite runs the INSERT; err and this.lastID are fixed here. *)
BookInsert(r) ==
    /\ reqs[r].kind = "book" /\ reqs[r].pc = "db"
    /\ LET err == InsertErr(bookings, reqs[r].date, reqs[r].slot) IN
       IF err # ""
       THEN /\ bookings' = bookings
            /\ reqs' = [reqs EXCEPT ![r].pc = "cb", ![r].err = err]
       ELSE /\ bookings' = Insert(bookings, reqs[r].date, reqs[r].slot, reqs[r].email)
            /\ reqs' = [reqs EXCEPT ![r].pc = "cb", ![r].wrote = TRUE,
                                    ![r].lastID = Len(bookings) + 1]
    /\ UNCHANGED <<program, env>>

(* The callback without its `if (err) return`: every insert is answered  *)
(* as a success.                                                          *)
BookCallbackIgnoresErr(r) ==
    /\ program = "server.js"
    /\ reqs[r].kind = "book" /\ reqs[r].pc = "cb"
    /\ reqs' = [reqs EXCEPT ![r] = Proceed(@, NotifyFrom(reqs[r].email))]
    /\ UNCHANGED <<program, env, bookings>>

(* server.js: async function (err) { ... } up to the first awaited fetch. *)
BookCallback(r) ==
    /\ program = "server.js"
    /\ reqs[r].kind = "book" /\ reqs[r].pc = "cb"
    /\ reqs' = [reqs EXCEPT ![r] =
         IF reqs[r].err # ""
         THEN Done(@, JsonError(400, "Slot already booked"))
         ELSE Proceed(@, NotifyFrom(reqs[r].email))]
    /\ UNCHANGED <<program, env, bookings>>

(* part_000: function (err) { ... }: no id in the reply, no e-mail. *)
BookCallback0(r) ==
    /\ program = "part_000"
    /\ reqs[r].kind = "book" /\ reqs[r].pc = "cb"
    /\ reqs' = [reqs EXCEPT ![r] =
         IF reqs[r].err # ""
         THEN Done(@, JsonError(400, "Slot already booked"))
         ELSE Done(@, Json(200))]
    /\ UNCHANGED <<program, env, bookings>>

(* ------------------------------ awaited fetch ------------------------- *)
(* sendEmail without its try/catch: a transport error reaches the handler *)
(* and the request is answered 500.                                       *)
FetchSettleThrows(r, outcome) ==
    /\ reqs[r].pc \in {"ownerFetch", "custFetch"}
    /\ reqs' = [reqs EXCEPT ![r] =
         IF outcome = "error"
         THEN Done([@ EXCEPT !.mail = Append(@, outcome)], JsonError(500, "error"))
         ELSE Proceed([@ EXCEPT !.mail = Append(@, outcome)],
                      IF reqs[r].pc = "ownerFetch"
                      THEN AfterOwner(CustomerOf(reqs[r]))
                      ELSE "respond")]
    /\ UNCHANGED <<program, env, bookings>>

(* The fetch of sendEmail settles: resp.ok, !resp.ok (warned) or a thrown *)
(* transport error (caught, warned).  The handler resumes after the await.*)
FetchSettle(r, outcome) ==
    /\ reqs[r].pc \in {"ownerFetch", "custFetch"}
    /\ reqs' = [reqs EXCEPT ![r] =
         Proceed([@ EXCEPT !.mail = Append(@, outcome)],
                 IF reqs[r].pc = "ownerFetch" THEN AfterOwner(CustomerOf(reqs[r]))
                 ELSE "respond")]
    /\ UNCHANGED <<program, env, bookings>>

(* ------------------------------ GET /availability --------------------- *)
GetAvailability(date) ==
    /\ program = "server.js"
    /\ Arrive(IF Falsy(date)
              THEN Done([NewReq("availability") EXCEPT !.date = date],
                        JsonError(400, "Missing date"))
              ELSE [NewReq("availability") EXCEPT !.date = date])
    /\ UNCHANGED <<program, env, bookings>>

(* part_000: the date is not checked. *)
GetAvailability0(date) ==
    /\ program = "part_000"
    /\ Arrive([NewReq("availability") EXCEPT !.date = date])
    /\ UNCHANGED <<program, env, bookings>>

(* SQLite runs the SELECT and the callback answers with the list. *)
AvailabilitySelect(r) ==
    /\ reqs[r].kind = "availability" /\ reqs[r].pc = "db"
    /\ reqs' = [reqs EXCEPT ![r] =
         Done(@, [Json(200) EXCEPT !.data = AvailabilityOf(bookings, reqs[r].date)])]
    /\ UNCHANGED <<program, env, bookings>>

(* ------------------------------ GET /admin/bookings ------------------- *)
(* ORDER BY date, slot.  Dates are text; in an INTEGER column numbers     *)
(* sort before text, so the empty string follows every slot number.       *)
SlotOrd(slot) == IF slot = Empty THEN MaxSlot + 1 ELSE slot

RowBefore(a, b) ==
    \/ a.date < b.date
    \/ a.date = b.date /\ SlotOrd(a.slot) < SlotOrd(b.slot)
    \/ a.date = b.date /\ a.slot = b.slot /\ a.id < b.id

RECURSIVE OrderRows(_)
OrderRows(rows) ==
    IF rows = {} THEN <<>>
    ELSE LET first == CHOOSE a \in rows : \A b \in rows \ {a} : RowBefore(a, b)
         IN <<first>> \o OrderRows(rows \ {first})

RowsOf(table) == {table[i] : i \in 1..Len(table)}

(* The SELECT without its ORDER BY clause: rows come in rowid order. *)
SelectBookingsUnordered(table, date) ==
    SelectSeq(table, LAMBDA row : Falsy(date) \/ row.date = date)

(* server.js: date ? "... WHERE date = ? ORDER BY date, slot"             *)
(*                 : "SELECT * FROM bookings ORDER BY date, slot"         *)
SelectBookings(table, date) ==
    IF Falsy(date)
    THEN OrderRows(RowsOf(table))
    ELSE OrderRows({row \in RowsOf(table) : row.date = date})

(* part_000: "SELECT * FROM bookings WHERE date = ? ORDER BY slot"; a     *)
(* missing date is bound as NULL and matches no row.                      *)
SelectBookings0(table, date) ==
    OrderRows({row \in RowsOf(table) : date # NULL /\ row.date = date})

GetAdminBookings(date, creds) ==
    /\ Arrive(IF adminAuth(creds)
              THEN [NewReq("bookings") EXCEPT !.creds = creds, !.date = date]
              ELSE Done([NewReq("bookings") EXCEPT !.creds = creds], Unauthorized))
    /\ UNCHANGED <<program, env, bookings>>

AdminBookingsSelect(r) ==
    /\ reqs[r].kind = "bookings" /\ reqs[r].pc = "db"
    /\ reqs' = [reqs EXCEPT ![r] =
         Done(@, [Json(200) EXCEPT !.data =
                    IF program = "server.js"
                    THEN SelectBookings(bookings, reqs[r].date)
                    ELSE SelectBookings0(bookings, reqs[r].date)])]
    /\ UNCHANGED <<program, env, bookings>>

(* ------------------------------ POST /admin/cancel -------------------- *)
PostAdminCancel(id, creds) ==
    /\ program = "server.js"
    /\ Arrive(IF ~adminAuth(creds)
              THEN Done([NewReq("cancel") EXCEPT !.creds = creds], Unauthorized)
              ELSE IF Falsy(id)
              THEN Done([NewReq("cancel") EXCEPT !.creds = creds, !.id = id],
                        JsonError(400, "Missing id"))
              ELSE [NewReq("cancel") EXCEPT !.creds = creds, !.id = id])
    /\ UNCHANGED <<program, env, bookings>>

(* The callback without its `if (!row) return 404`. *)
CancelSelectNoCheck(r) ==
    /\ reqs[r].kind = "cancel" /\ reqs[r].pc = "db"
    /\ reqs' = [reqs EXCEPT ![r] =
         [@ EXCEPT !.pc = "update", !.row = SelectById(bookings, reqs[r].id)]]
    /\ UNCHANGED <<program, env, bookings>>

(* The callback treating a repeated cancel as a state violation. *)
CancelSelectRejectsRepeat(r) ==
    /\ reqs[r].kind = "cancel" /\ reqs[r].pc = "db"
    /\ LET row == SelectById(bookings, reqs[r].id) IN
       reqs' = [reqs EXCEPT ![r] =
         IF row = NoRow
         THEN Done(@, JsonError(404, "Not found"))
         ELSE IF row.status = "canceled"
         THEN Done([@ EXCEPT !.row = row], JsonError(409, "Already canceled"))
         ELSE [@ EXCEPT !.pc = "update", !.row = row]]
    /\ UNCHANGED <<program, env, bookings>>

(* db.get runs; its callback answers 404 or queues the UPDATE. *)
CancelSelect(r) ==
    /\ reqs[r].kind = "cancel" /\ reqs[r].pc = "db"
    /\ LET row == SelectById(bookings, reqs[r].id) IN
       reqs' = [reqs EXCEPT ![r] =
         IF row = NoRow
         THEN Done(@, JsonError(404, "Not found"))
         ELSE [@ EXCEPT !.pc = "update", !.row = row]]
    /\ UNCHANGED <<program, env, bookings>>

(* SQLite runs the UPDATE. *)
CancelUpdate(r) ==
    /\ reqs[r].kind = "cancel" /\ reqs[r].pc = "update"
    /\ bookings' = UpdateCanceled(bookings, reqs[r].id)
    /\ reqs' = [reqs EXCEPT ![r].pc = "cb", ![r].wrote = TRUE]
    /\ UNCHANGED <<program, env>>

(* The callback of the UPDATE, up to the first awaited fetch. *)
CancelCallback(r) ==
    /\ reqs[r].kind = "cancel" /\ reqs[r].pc = "cb"
    /\ reqs' = [reqs EXCEPT ![r] = Proceed(@, NotifyFrom(reqs[r].row.email))]
    /\ UNCHANGED <<program, env, bookings>>

(* ------------------------------ POST /admin/complete ------------------ *)
PostAdminComplete(id, creds) ==
    /\ program = "server.js"
    /\ Arrive(IF ~adminAuth(creds)
              THEN Done([NewReq("complete") EXCEPT !.creds = creds], Unauthorized)
              ELSE IF Falsy(id)
              THEN Done([NewReq("complete") EXCEPT !.creds = creds, !.id = id],
                        JsonError(400, "Missing id"))
              ELSE [NewReq("complete") EXCEPT !.creds = creds, !.id = id])
    /\ UNCHANGED <<program, env, bookings>>

CompleteSelect(r) ==
    /\ reqs[r].kind = "complete" /\ reqs[r].pc = "db"
    /\ LET row == SelectById(bookings, reqs[r].id) IN
       reqs' = [reqs EXCEPT ![r] =
         IF row = NoRow
         THEN Done(@, JsonError(404, "Not found"))
         ELSE [@ EXCEPT !.pc = "update", !.row = row]]
    /\ UNCHANGED <<program, env, bookings>>

CompleteUpdate(r) ==
    /\ reqs[r].kind = "complete" /\ reqs[r].pc = "update"
    /\ bookings' = UpdateCompleted(bookings, reqs[r].id)
    /\ reqs' = [reqs EXCEPT ![r].pc = "cb", ![r].wrote = TRUE]
    /\ UNCHANGED <<program, env>>

CompleteCallback(r) ==
    /\ reqs[r].kind = "complete" /\ reqs[r].pc = "cb"
    /\ reqs' = [reqs EXCEPT ![r] = Proceed(@, NotifyFrom(reqs[r].row.email))]
    /\ UNCHANGED <<program, env, bookings>>

(* ------------------------------ the admin page ------------------------ *)
(* server.js: app.get("/admin", adminAuth, redirect) and                  *)
(* app.get("/admin.html", adminAuth, sendFile), both before the static    *)
(* middleware.                                                            *)
GetAdmin(path, creds) ==
    /\ program = "server.js"
    /\ Arrive(Done([NewReq("admin") EXCEPT !.creds = creds, !.path = path],
                   IF ~adminAuth(creds) THEN Unauthorized
                   ELSE IF path = "/admin"
                   THEN [Json(302) EXCEPT !.location = "/admin.html"]
                   ELSE [Json(200) EXCEPT !.page = "admin.html"]))
    /\ UNCHANGED <<program, env, bookings>>

(* part_000: app.use(express.static("public")) is registered before       *)
(* app.use("/admin.html", adminAuth): the static middleware answers       *)
(* GET /admin.html with public/admin.html and adminAuth is never reached. *)
GetAdminHtml0(creds) ==
    /\ program = "part_000"
    /\ Arrive(Done([NewReq("admin") EXCEPT !.creds = creds, !.path = "/admin.html"],
                   [Json(200) EXCEPT !.page = "admin.html"]))
    /\ UNCHANGED <<program, env, bookings>>

(* ------------------------------ specification ------------------------- *)
(* The table lives in ./bookings.db and outlives the process (CREATE      *)
(* TABLE IF NOT EXISTS): the server starts on an empty table or on rows   *)
(* left by an earlier run.  part_000 has no route that changes a status.  *)
Statuses == {"booked", "canceled", "completed"}

(* The e-mail settings: the defaults (all ""), all three set, and each    *)
(* one alone left unset.                                                  *)
Envs ==
    {e \in [RESEND_API_KEY : {"", "re_key"}, FROM_EMAIL : {"", "from@shop"},
            OWNER_NOTIFY_EMAIL : {"", "owner@shop"}] :
        Cardinality({k \in DOMAIN e : e[k] = ""}) # 2}

NoEnv == [RESEND_API_KEY |-> "", FROM_EMAIL |-> "", OWNER_NOTIFY_EMAIL |-> ""]

(* What ./bookings.db can hold when the server starts: nothing, or one   *)
(* earlier booking of the first or of the last modelled slot.             *)
StoredTables(statuses) ==
    {<<>>} \cup
    {<<[id |-> 1, date |-> 1, slot |-> sl, email |-> "cust@mail", status |-> st]>> :
        sl \in {1, MaxSlot}, st \in statuses}

Init ==
    /\ program \in {"server.js", "part_000"}
    /\ env \in IF program = "server.js" THEN Envs ELSE {NoEnv}
    /\ bookings \in StoredTables(IF program = "server.js" THEN Statuses ELSE {"booked"})
    /\ reqs = <<>>

Next ==
    \/ \E d \in Dates, s \in SlotInputs, e \in Emails : PostBook(d, s, e)
    \/ \E r \in Rs : BookInsert(r)
    \/ \E r \in Rs : BookCallback(r)
    \/ \E r \in Rs : BookCallback0(r)
    \/ \E r \in Rs, o \in FetchOutcomes : FetchSettle(r, o)
    \/ \E d \in Dates : GetAvailability(d)
    \/ \E d \in Dates : GetAvailability0(d)
    \/ \E r \in Rs : AvailabilitySelect(r)
    \/ \E d \in Dates, c \in Creds : GetAdminBookings(d, c)
    \/ \E r \in Rs : AdminBookingsSelect(r)
    \/ \E i \in IdInputs, c \in Creds : PostAdminCancel(i, c)
    \/ \E r \in Rs : CancelSelect(r)
    \/ \E r \in Rs : CancelUpdate(r)
    \/ \E r \in Rs : CancelCallback(r)
    \/ \E i \in IdInputs, c \in Creds : PostAdminComplete(i, c)
    \/ \E r \in Rs : CompleteSelect(r)
    \/ \E r \in Rs : CompleteUpdate(r)
    \/ \E r \in Rs : CompleteCallback(r)
    \/ \E p \in {"/admin", "/admin.html"}, c \in Creds : GetAdmin(p, c)
    \/ \E c \in Creds : GetAdminHtml0(c)

Spec == Init /\ [][Next]_vars

(* ====================================================================== *)
(* Properties                                                             *)
(* ====================================================================== *)
Pairs == (Dates \ {NULL}) \X (SlotInputs \ {NULL})

Mutations == {"book", "cancel", "complete"}
AdminKinds == {"bookings", "cancel", "complete", "admin"}

(* Rows the server found in the table when it started: no request of this *)
(* run inserted them.                                                     *)
StoredIds == {i \in 1..Len(bookings) : \A r \in Rs : reqs[r].lastID # i}

(* The book requests on (d, s) whose INSERT has run. *)
Tried(d, s) ==
    {r \in Rs : /\ reqs[r].kind = "book" /\ reqs[r].pc # "db"
                /\ reqs[r].date = d /\ reqs[r].slot = s}

(* C1: in every reachable state, each (date, slot) pair has at most one   *)
(* row with status 'booked'.                                              *)
C1_AtMostOneBooked ==
    \A i, j \in 1..Len(bookings) :
        /\ i # j
        /\ bookings[i].status = "booked" /\ bookings[j].status = "booked"
        => ~(bookings[i].date = bookings[j].date /\ bookings[i].slot = bookings[j].slot)

(* A second insert on a pair that holds a booked row has been refused. *)
C1_Witness ==
    \E r \in Rs, i \in 1..Len(bookings) :
        /\ reqs[r].kind = "book" /\ reqs[r].err = "SQLITE_CONSTRAINT: UNIQUE"
        /\ bookings[i].status = "booked"
        /\ bookings[i].date = reqs[r].date /\ bookings[i].slot = reqs[r].slot

(* C2: of the createBooking requests on one (date, slot) that had no row  *)
(* at the start, exactly one succeeds; every other one is answered 400    *)
(* 'Slot already booked', and the row stays as the successful request     *)
(* inserted it (its status changes only by a cancel or complete).         *)
C2_OneWinner ==
    \A p \in Pairs :
        LET tried == Tried(p[1], p[2]) IN
        /\ \A i \in StoredIds : ~(bookings[i].date = p[1] /\ bookings[i].slot = p[2])
        /\ tried # {}
        => \E w \in tried :
             /\ reqs[w].err = "" /\ reqs[w].lastID \in 1..Len(bookings)
             /\ reqs[w].pc = "done" => reqs[w].res.status = 200
             /\ LET row == bookings[reqs[w].lastID] IN
                /\ row.id = reqs[w].lastID
                /\ row.date = p[1] /\ row.slot = p[2] /\ row.email = reqs[w].email
                /\ \/ row.status = "booked"
                   \/ \E a \in Rs : /\ reqs[a].kind \in {"cancel", "complete"}
                                    /\ reqs[a].id = row.id /\ reqs[a].wrote
             /\ \A l \in tried \ {w} :
                  /\ reqs[l].err = "SQLITE_CONSTRAINT: UNIQUE"
                  /\ reqs[l].lastID = NULL /\ ~reqs[l].wrote
                  /\ reqs[l].pc = "done"
                     => reqs[l].res = JsonError(400, "Slot already booked")

(* Two requests on one fresh pair are both answered: one 200, one 400. *)
C2_Witness ==
    \E p \in Pairs : \E w, l \in Tried(p[1], p[2]) :
        /\ \A i \in StoredIds : ~(bookings[i].date = p[1] /\ bookings[i].slot = p[2])
        /\ w # l /\ reqs[w].pc = "done" /\ reqs[l].pc = "done"
        /\ reqs[w].res.status = 200 /\ reqs[l].res.status = 400

(* C3: no step takes a booking from 'canceled' to 'completed' or from     *)
(* 'completed' to 'canceled'.                                             *)
C3_NoCanceledCompletedCrossing ==
    [][\A i \in 1..Len(bookings) :
         /\ bookings[i].status = "canceled" => bookings'[i].status # "completed"
         /\ bookings[i].status = "completed" => bookings'[i].status # "canceled"]_vars

(* C4: no step gives status 'booked' to a booking that is 'canceled' or   *)
(* 'completed'; the booking keeps its id and its place in the table.      *)
C4_NeverBookedAgain ==
    [][/\ Len(bookings') >= Len(bookings)
       /\ \A i \in 1..Len(bookings) :
            /\ bookings'[i].id = bookings[i].id
            /\ bookings[i].status # "booked" => bookings'[i].status # "booked"]_vars

(* A request has acted on a booking that was already canceled or          *)
(* completed: a createBooking on its pair, or a cancel/complete of its id.*)
C4_Witness ==
    \E i \in 1..Len(bookings), r \in Rs :
        /\ bookings[i].status # "booked" /\ reqs[r].pc = "done"
        /\ \/ /\ reqs[r].kind = "book"
              /\ reqs[r].date = bookings[i].date /\ reqs[r].slot = bookings[i].slot
           \/ /\ reqs[r].kind \in {"cancel", "complete"} /\ reqs[r].wrote
              /\ reqs[r].id = i /\ reqs[r].row.status # "booked"

(* What GET /availability?date=d reports for slot s on this table: TRUE   *)
(* when the reply is the list and holds an entry for s with available.    *)
ReportsAvailable(table, date, slot) ==
    /\ ~Falsy(date)
    /\ \E k \in 1..Len(slotKeys) :
         /\ AvailabilityOf(table, date)[k].slot = slot
         /\ AvailabilityOf(table, date)[k].available

(* C5: once a cancel of a booking it read as 'booked' has succeeded,      *)
(* checkAvailability for the booking's date reports its slot available.   *)
C5_CanceledSlotAvailable ==
    \A r \in Rs :
        /\ reqs[r].kind = "cancel" /\ reqs[r].row.status = "booked"
        /\ reqs[r].pc = "done" /\ reqs[r].res = Json(200)
        => ReportsAvailable(bookings, reqs[r].row.date, reqs[r].row.slot)

(* C6: a request never waits on a notification: while a fetch of          *)
(* sendEmail is pending, the request's response has been sent.            *)
C6_ResponseBeforeNotification ==
    \A r \in Rs :
        /\ reqs[r].kind \in Mutations
        /\ reqs[r].pc \in {"ownerFetch", "custFetch"}
        => reqs[r].res # NoRes

(* C7: an administrative request without the configured credentials is    *)
(* answered 401 with a challenge, gets neither list nor page and never    *)
(* reaches the table.                                                     *)
C7_AdminGated ==
    \A r \in Rs :
        /\ reqs[r].kind \in AdminKinds
        /\ ~adminAuth(reqs[r].creds)
        => /\ reqs[r].pc = "done" /\ reqs[r].res = Unauthorized
           /\ ~reqs[r].wrote

(* C8: a createBooking whose date or slot is missing or empty inserts no  *)
(* row and is answered 400.                                               *)
C8_InvalidInputRejected ==
    \A r \in Rs :
        /\ reqs[r].kind = "book"
        /\ Falsy(reqs[r].date) \/ Falsy(reqs[r].slot)
        => /\ ~reqs[r].wrote /\ reqs[r].lastID = NULL
           /\ reqs[r].pc = "done" => reqs[r].res.status = 400

(* C9: a cancel or complete of an id that no booking has is answered 404  *)
(* 'Not found', never reaches its UPDATE and sends no notification.       *)
C9_NotFound ==
    \A r \in Rs :
        /\ reqs[r].kind \in {"cancel", "complete"}
        /\ adminAuth(reqs[r].creds) /\ ~Falsy(reqs[r].id)
        /\ reqs[r].id \notin 1..Len(bookings)
        => /\ reqs[r].pc \in {"db", "done"}
           /\ reqs[r].pc = "done" => reqs[r].res = JsonError(404, "Not found")
           /\ ~reqs[r].wrote /\ reqs[r].mail = <<>>

(* Both operations have been answered 404 for an id that is not there. *)
C9_Witness ==
    \E r, q \in Rs :
        /\ reqs[r].kind = "cancel" /\ reqs[q].kind = "complete"
        /\ \A x \in {r, q} :
             /\ reqs[x].pc = "done" /\ reqs[x].res.status = 404
             /\ ~Falsy(reqs[x].id) /\ reqs[x].id \notin 1..Len(bookings)

(* C10: the answer of createBooking, cancelBooking and completeBooking is *)
(* fixed by the table operation alone, whatever the fetches of its        *)
(* notifications did, and a settling fetch leaves the table as it is.     *)
C10_AnswerOf(req) ==
    IF req.err # "" THEN JsonError(400, "Slot already booked")
    ELSE IF req.kind = "book" /\ program = "server.js"
    THEN [Json(200) EXCEPT !.id = req.lastID]
    ELSE Json(200)

C10_NotificationAbsorbed ==
    /\ [](\A r \in Rs :
            /\ reqs[r].kind \in Mutations /\ reqs[r].pc = "done"
            /\ reqs[r].wrote \/ reqs[r].err # ""
            => reqs[r].res = C10_AnswerOf(reqs[r]))
    /\ [][\A r \in Rs :
            /\ reqs[r].pc \in {"ownerFetch", "custFetch"}
            /\ reqs'[r] # reqs[r]
            => bookings' = bookings]_vars

(* A request whose two notifications failed, one with a transport error   *)
(* and one with a non-OK reply, has been answered 200.                    *)
C10_Witness ==
    \E r \in Rs :
        /\ reqs[r].kind \in Mutations /\ reqs[r].pc = "done"
        /\ reqs[r].mail \in {<<"error", "not ok">>, <<"not ok", "error">>}
        /\ reqs[r].res.status = 200

(* C11: the list GET /availability sends for a non-empty date has one     *)
(* entry per catalog slot 1, 2, 3 in that order, and an entry is          *)
(* available exactly when the table, as it is when the SELECT runs, has   *)
(* no 'booked' row for that date and slot.                                *)
C11_AvailabilityList ==
    [][\A r \in Rs :
         /\ reqs[r].kind = "availability" /\ ~Falsy(reqs[r].date)
         /\ reqs[r].pc = "db" /\ reqs'[r].pc = "done"
         => /\ reqs'[r].res.status = 200
            /\ Len(reqs'[r].res.data) = 3
            /\ \A k \in 1..3 :
                 /\ reqs'[r].res.data[k].slot = k
                 /\ reqs'[r].res.data[k].available
                    <=> ~\E i \in 1..Len(bookings) :
                           /\ bookings[i].date = reqs[r].date
                           /\ bookings[i].slot = k
                           /\ bookings[i].status = "booked"]_vars

(* A list has been sent for a date that holds a row that is not 'booked'  *)
(* on slot 1 and a 'booked' row on slot 2: slot 1 and slot 3 are reported *)
(* available, slot 2 is not.                                              *)
C11_Witness ==
    \E r \in Rs, i, j \in 1..Len(bookings) :
        /\ reqs[r].kind = "availability" /\ reqs[r].pc = "done"
        /\ bookings[i].date = reqs[r].date /\ bookings[j].date = reqs[r].date
        /\ bookings[i].slot = 1 /\ bookings[i].status # "booked"
        /\ bookings[j].slot = 2 /\ bookings[j].status = "booked"
        /\ Len(reqs[r].res.data) = 3
        /\ reqs[r].res.data[1].available /\ ~reqs[r].res.data[2].available
        /\ reqs[r].res.data[3].available

(* C12: in every step every row stays in the table with its id, date,     *)
(* slot and customer fields; a status changes only in the UPDATE step of  *)
(* a cancel or complete request for that row's id.                        *)
C12_OnlyStatusChanges ==
    [][/\ Len(bookings') >= Len(bookings)
       /\ \A i \in 1..Len(bookings) :
            /\ [bookings'[i] EXCEPT !.status = bookings[i].status] = bookings[i]
            /\ bookings'[i].status # bookings[i].status
               => \E r \in Rs :
                    /\ reqs[r].kind \in {"cancel", "complete"}
                    /\ reqs[r].id = bookings[i].id
                    /\ reqs[r].pc = "update" /\ reqs'[r].pc = "cb"]_vars

(* The table holds two rows; a cancel or complete has updated one of them *)
(* and the other is still 'booked'.                                       *)
C12_Witness ==
    \E r \in Rs, i, j \in 1..Len(bookings) :
        /\ i # j
        /\ reqs[r].kind \in {"cancel", "complete"} /\ reqs[r].wrote
        /\ reqs[r].id = i /\ reqs[r].row.status = "booked"
        /\ bookings[i].status # "booked" /\ bookings[j].status = "booked"

(* C13: a createBooking answered with success has inserted one row, no    *)
(* other row has its id, and the id in the answer is the id of that row,  *)
(* which carries the request's date, slot and customer fields.            *)
C13_ReturnsNewRowId ==
    \A r \in Rs :
        /\ reqs[r].kind = "book" /\ reqs[r].pc = "done"
        /\ reqs[r].res.status = 200
        => /\ reqs[r].res.id \in 1..Len(bookings)
           /\ reqs[r].res.id = reqs[r].lastID
           /\ \A q \in Rs \ {r} : reqs[q].lastID # reqs[r].res.id
           /\ \A i \in 1..Len(bookings) :
                bookings[i].id = reqs[r].res.id <=> i = reqs[r].res.id
           /\ LET row == bookings[reqs[r].res.id] IN
                /\ row.date = reqs[r].date /\ row.slot = reqs[r].slot
                /\ row.email = reqs[r].email

(* C14: the list answered to a listing without a date holds only rows     *)
(* whose status is 'booked', and every 'booked' row of the table at the   *)
(* moment of the SELECT is in it.  (Neither program reads a clock, so     *)
(* the bound on the date is left to the rows' status alone.)              *)
C14_EmptyFilterActiveOnly ==
    [][\A r \in Rs :
         /\ reqs[r].kind = "bookings" /\ Falsy(reqs[r].date)
         /\ reqs[r].pc = "db" /\ reqs'[r].pc = "done"
         => LET data == reqs'[r].res.data IN
              /\ \A k \in 1..Len(data) : data[k].status = "booked"
              /\ \A i \in 1..Len(bookings) :
                   bookings[i].status = "booked" /\ bookings[i].date \in Dates
                   => \E k \in 1..Len(data) : data[k] = bookings[i]]_vars

(* C15: the list answered to a listing for date d holds exactly the rows  *)
(* of the table with that date, each once, whatever their status, in      *)
(* ascending order of slot (the date being the same in all of them).      *)
C15_DateFilterExact ==
    [][\A r \in Rs :
         /\ reqs[r].kind = "bookings" /\ ~Falsy(reqs[r].date)
         /\ reqs[r].pc = "db" /\ reqs'[r].pc = "done"
         => LET data == reqs'[r].res.data IN
              /\ reqs'[r].res.status = 200
              /\ {data[k] : k \in 1..Len(data)} =
                   {bookings[i] : i \in {j \in 1..Len(bookings) :
                                          bookings[j].date = reqs[r].date}}
              /\ \A k, l \in 1..Len(data) :
                   k < l => /\ data[k] # data[l]
                            /\ data[k].date = data[l].date
                            /\ SlotOrd(data[k].slot) < SlotOrd(data[l].slot)]_vars

C15_Witness ==
    \E r \in Rs :
        /\ reqs[r].kind = "bookings" /\ reqs[r].pc = "done"
        /\ reqs[r].date \in 1..MaxDate
        /\ Len(reqs[r].res.data) = 2
        /\ reqs[r].res.data[1].id > reqs[r].res.data[2].id
        /\ reqs[r].res.data[2].status # "booked"

(* C16: a createBooking whose INSERT failed for another reason than the   *)
(* (date, slot) uniqueness is answered 500, and the answer 400 'Slot      *)
(* already booked' is given only when the table holds a row for the       *)
(* request's (date, slot).                                                *)
C16_ErrorKindsApart ==
    \A r \in Rs :
        reqs[r].kind = "book" /\ reqs[r].pc = "done"
        => /\ reqs[r].err \notin {"", "SQLITE_CONSTRAINT: UNIQUE"}
              => reqs[r].res.status = 500
           /\ reqs[r].res = JsonError(400, "Slot already booked")
              => \E i \in 1..Len(bookings) :
                     /\ bookings[i].date = reqs[r].date
                     /\ bookings[i].slot = reqs[r].slot

(* C17: when the INSERT of a createBooking for a date d and a catalog     *)
(* slot s runs on a table for which checkAvailability(d) answers          *)
(* available = TRUE for s, the INSERT succeeds; when it answers FALSE,    *)
(* the INSERT fails on the (date, slot) uniqueness.                       *)
C17_AvailabilityAgreesWithBooking ==
    [][\A r \in Rs :
         /\ reqs[r].kind = "book" /\ reqs[r].pc = "db" /\ reqs'[r].pc = "cb"
         /\ reqs[r].date \in 1..MaxDate /\ reqs[r].slot \in 1..MaxSlot
         => IF ReportsAvailable(bookings, reqs[r].date, reqs[r].slot)
            THEN /\ reqs'[r].err = ""
                 /\ bookings' = Insert(bookings, reqs[r].date, reqs[r].slot,
                                       reqs[r].email)
            ELSE /\ reqs'[r].err = "SQLITE_CONSTRAINT: UNIQUE"
                 /\ bookings' = bookings]_vars

(* C18: a cancelBooking of a row that is already 'canceled' (a            *)
(* completeBooking of a row already 'completed') is not turned away after *)
(* the row is read, its UPDATE leaves the table exactly as it was, and    *)
(* the request is answered with success.                                  *)
C18_RepeatIsNoOp ==
    /\ [](\A r \in Rs :
            /\ reqs[r].kind \in {"cancel", "complete"}
            /\ reqs[r].pc = "done" /\ reqs[r].row # NoRow
            => reqs[r].wrote /\ reqs[r].res = Json(200))
    /\ [][\A r \in Rs :
            LET repeat(kind, status) ==
                  /\ reqs[r].kind = kind
                  /\ \E i \in 1..Len(bookings) :
                       bookings[i].id = reqs[r].id /\ bookings[i].status = status
            IN  repeat("cancel", "canceled") \/ repeat("complete", "completed")
                => /\ reqs[r].pc = "db" /\ reqs'[r].pc # "db"
                      => reqs'[r].pc = "update"
                   /\ reqs[r].pc = "update" /\ reqs'[r].pc # "update"
                      => reqs'[r].pc = "cb" /\ bookings' = bookings]_vars

C18_Witness ==
    \E r, q \in Rs :
        /\ reqs[r].kind = "cancel" /\ reqs[r].pc = "done"
        /\ reqs[r].row.status = "booked" /\ reqs[r].res = Json(200)
        /\ reqs[q].kind = "cancel" /\ reqs[q].pc = "done"
        /\ reqs[q].id = reqs[r].id
        /\ reqs[q].row.status = "canceled" /\ reqs[q].wrote
        /\ reqs[q].res = Json(200)
        /\ bookings[reqs[q].id].status = "canceled"

(* C19: in the step in which a cancelBooking sends its success response   *)
(* the row of its id has status 'canceled', and in the step in which a    *)
(* completeBooking sends its success response the row has status          *)
(* 'completed'.                                                           *)
C19_SuccessReflectsStatus ==
    [][\A r \in Rs :
         /\ reqs[r].kind \in {"cancel", "complete"}
         /\ reqs[r].pc # "done" /\ reqs'[r].pc = "done"
         /\ reqs'[r].res = Json(200)
         => \E i \in 1..Len(bookings') :
              /\ bookings'[i].id = reqs[r].id
              /\ bookings'[i].status =
                   IF reqs[r].kind = "cancel" THEN "canceled" ELSE "completed"]_vars

====
